---------------------------- MODULE Spec2Model ----------------------------
(***************************************************************************)
(* Ultrasonic distance meter (HC-SR04 trigger/echo pair on a Pico).        *)
(*                                                                         *)
(* The repository holds two programs:                                      *)
(*   "fsm"  - src/unnamed/part_000 (and part_001, the same program with    *)
(*            its globals gathered in a struct): a measurement state       *)
(*            machine IDLE -> WAITING_FOR_ECHO -> COMPLETE/ERROR -> IDLE,  *)
(*            driven by a polling foreground loop, a GPIO edge callback    *)
(*            and a one-shot alarm callback;                               *)
(*   "main" - src/main/main.c: the same meter written with three flags     *)
(*            (flag_f_trigger, timer_fired, action_completed) and a        *)
(*            blocking wait loop.                                          *)
(* The variable program says which of the two is running.  Both run on one *)
(* core: the callbacks are interrupt handlers that run to completion and   *)
(* may preempt the foreground loop between any two of its steps.           *)
(*                                                                         *)
(* Time is the microsecond clock now.  It advances to the next instant at  *)
(* which something is due (the end of a sleep, an alarm) or by the delay   *)
(* of an echo edge.                                                        *)
(***************************************************************************)
EXTENDS Integers, Sequences, FiniteSets, TLC

VARIABLES
    program,              \* "fsm" | "main"
    \* ---- environment: clock, console, pins, alarm pool
    now,                  \* get_absolute_time(), microseconds since loop entry
    stdin,                \* characters typed and not yet read
    inputs,               \* console lines typed and stray echo interrupts so far
    sensor,               \* the sensor's pending answer to the last trigger pulse
    alarms,               \* the armed alarms of the default alarm pool
    next_id,              \* next alarm id the pool hands out
    trig,                 \* level of the trigger pin
    pulses,               \* number of trigger pulses emitted
    output,               \* the report lines printed
    \* ---- foreground loop
    pc,                   \* position of the foreground loop
    wake,                 \* end of the current sleep / time of the last loop boundary
    cmd_index,
    cmd_buffer,           \* part_000 cmd_buffer / main.c command, as the string typed so far
    tmp,                  \* locals of main(): values read and not yet used
    \* ---- part_000 shared state
    current_state,
    echo_start_time,
    echo_end_time,
    measurement_alarm_id,
    system_running,
    \* ---- main.c state
    sensor_state,         \* the sensor_state_t struct
    reading_active,
    last_measurement,
    measure_start,
    \* ---- history (not program state): what happened in the current cycle
    hist

envv  == <<now, stdin, inputs, sensor, alarms, next_id, trig, pulses, output>>
fgv   == <<pc, wake, cmd_index, cmd_buffer, tmp>>
fsmv  == <<current_state, echo_start_time, echo_end_time, measurement_alarm_id, system_running>>
mainv == <<sensor_state, reading_active, last_measurement, measure_start>>
vars  == <<program, envv, fgv, fsmv, mainv, hist>>

---------------------------------------------------------------------------
(* Program constants *)

MEASUREMENT_TIMEOUT_US == 30000
CMD_BUFFER_SIZE == 64
COMMAND_SIZE == 20
GPIO_IRQ_EDGE_RISE == 8
GPIO_IRQ_EDGE_FALL == 4
ECHO_PIN == 27
TRIGGER_PIN == 28
MAIN_ECHO_PIN == 14
MAIN_TRIG_PIN == 15
PULSE_US == 10
GETCHAR_TIMEOUT_US == 1000
LOOP_SLEEP_US == 10000
INTERVAL_SLEEP_US == 1000000
MAIN_ALARM_US == 500000
MAIN_INTERVAL_US == 1000000
MAIN_POLL_US == 1000
MAIN_WAIT_LIMIT_US == 1000000

STATE_IDLE == "STATE_IDLE"
STATE_WAITING_FOR_ECHO == "STATE_WAITING_FOR_ECHO"
STATE_MEASUREMENT_COMPLETE == "STATE_MEASUREMENT_COMPLETE"
STATE_MEASUREMENT_ERROR == "STATE_MEASUREMENT_ERROR"
States == {STATE_IDLE, STATE_WAITING_FOR_ECHO, STATE_MEASUREMENT_COMPLETE, STATE_MEASUREMENT_ERROR}

(* Bounds of the exploration *)
MaxCycles == 2      \* trigger pulses per run
MaxInputs == 2      \* console lines typed plus stray echo interrupts per run
MaxOverflow == 2    \* characters typed beyond the capacity of the command buffer

(* Inputs *)
LF == "\n"
CR == "\r"
PICO_ERROR_TIMEOUT == "PICO_ERROR_TIMEOUT"
Lines == { <<"s","t","a","r","t",LF>>, <<"s","t","o","p",CR>>, <<"s","t","a",LF>>, <<LF>> }
\* The sensor's answers to a trigger pulse: none, or the echo line rises `rise`
\* microseconds after the pulse and falls `width` microseconds later.
Quiet == [phase |-> "quiet", due |-> 0 - 1, width |-> 0]
Answers == { Quiet,
             [phase |-> "rise", due |-> 100, width |-> 600],
             [phase |-> "rise", due |-> 100, width |-> 30000] }
Heard(answer, t) == IF answer.phase = "quiet" THEN Quiet ELSE [answer EXCEPT !.due = t + @]
EventMasks == {GPIO_IRQ_EDGE_RISE, GPIO_IRQ_EDGE_FALL, GPIO_IRQ_EDGE_RISE + GPIO_IRQ_EDGE_FALL}

Never == 0 - 1      \* no deadline

Min(S) == CHOOSE x \in S : \A y \in S : x <= y
HasRise(events) == (events \div GPIO_IRQ_EDGE_RISE) % 2 = 1   \* events & GPIO_IRQ_EDGE_RISE
HasFall(events) == (events \div GPIO_IRQ_EDGE_FALL) % 2 = 1   \* events & GPIO_IRQ_EDGE_FALL

---------------------------------------------------------------------------
(* pico-sdk collaborators *)

\* absolute_time_diff_us(from, to)
absolute_time_diff_us(from, to) == to - from

\* cancel_alarm(id): removes the alarm if it is still armed, otherwise nothing
\* cancel_alarm where an id that is not armed takes every armed alarm with it
cancel_alarm_absent_clears(pool, id) ==
    IF \E a \in pool : a.id = id THEN { a \in pool : a.id # id } ELSE {}

cancel_alarm(pool, id) == { a \in pool : a.id # id }

\* add_alarm_in_us(us, callback, user_data, fire_if_past): a new armed alarm
add_alarm(pool, id, t, us) == pool \cup { [id |-> id, target |-> t + us, cycle |-> pulses] }

DueAlarms == { a \in alarms : a.target <= now }
EdgeDue == sensor.phase # "quiet" /\ sensor.due <= now
IrqPending == DueAlarms # {} \/ EdgeDue

---------------------------------------------------------------------------
(* Result computation and formatting.  A distance is kept as the exact     *)
(* numerator over 20000: (duration_us * 0.0343f) / 2.0f = duration*343/20000 *)

DIST_DEN == 20000
\* the distance with the division by 2.0f left out
Distance_one_way(duration_us) == duration_us * 686
Distance(duration_us) == duration_us * 343

\* num/den rounded to the nearest integer, a half to the even neighbour, as
\* printf rounds the last digit it shows (den is even)
RoundHalfEven(num, den) ==
    LET q == num \div den
        r == num % den
    IN  IF r > den \div 2 \/ (r = den \div 2 /\ q % 2 = 1) THEN q + 1 ELSE q
RoundDiv(num, den) ==
    IF num >= 0 THEN RoundHalfEven(num, den) ELSE 0 - RoundHalfEven(0 - num, den)

\* printf("%.0f cm"): the distance as a whole number of centimetres
Format0(dist) == RoundDiv(dist, DIST_DEN)
\* printf("%.2f cm"): the distance in hundredths of a centimetre
Format2(dist) == RoundDiv(dist, DIST_DEN \div 100)

---------------------------------------------------------------------------
(* Scheduling: when the foreground loop runs next, and how time advances *)

SleepingAt == {"getchar_wait", "pulse_sleep", "sleep1000", "sleep10", "m_pulse_sleep"}

\* part_000: nothing for the loop to do until the operator types
FsmQuiescent == ~system_running /\ current_state = STATE_IDLE /\ stdin = <<>>

\* main.c: the loop boundaries are wake + k * 10 ms (getchar_timeout_us(0) and
\* the test of line 134 take no time); iterations that read no character and
\* start no measurement change nothing and are passed over.
Boundary(t) ==
    IF t <= wake THEN wake
    ELSE wake + LOOP_SLEEP_US * ((t - wake + LOOP_SLEEP_US - 1) \div LOOP_SLEEP_US)
MainDue ==
    IF stdin # <<>> THEN Boundary(now)
    ELSE IF reading_active
         THEN Boundary(IF now >= last_measurement + MAIN_INTERVAL_US
                       THEN now ELSE last_measurement + MAIN_INTERVAL_US)
         ELSE Never

\* main.c lines 146-151: the wait loop tests its condition at
\* measure_start + k * 1 ms; it leaves at the first test after a flag was set,
\* or by the break once more than 1 s has gone by.
Poll(t) == measure_start + MAIN_POLL_US * ((t - measure_start + MAIN_POLL_US - 1) \div MAIN_POLL_US)
LoopDue ==
    IF sensor_state.action_completed \/ sensor_state.timer_fired
    THEN Poll(now)
    ELSE measure_start + MAIN_WAIT_LIMIT_US + MAIN_POLL_US

\* the instant at which the foreground executes its next step
FgDue ==
    CASE pc \in SleepingAt /\ ~(pc = "getchar_wait" /\ stdin # <<>>) -> wake
      [] pc = "getchar" /\ FsmQuiescent -> Never
      [] pc = "m_getchar" -> MainDue
      [] pc = "m_loop" -> LoopDue
      [] OTHER -> now

FgReady == ~IrqPending /\ FgDue = now

Deadlines ==
    { a.target : a \in alarms }
    \cup (IF FgDue = Never THEN {} ELSE {FgDue})
    \cup (IF sensor.phase = "quiet" THEN {} ELSE {sensor.due})

\* Time passes to the next deadline, or to one microsecond before an alarm.
Tick ==
    /\ ~IrqPending
    /\ FgDue # now
    /\ Deadlines # {}
    /\ \E t \in {Min(Deadlines), Min(Deadlines) - 1} :
          /\ t > now
          /\ t = Min(Deadlines) \/ Min(Deadlines) \in { a.target : a \in alarms }
          /\ now' = t
    /\ UNCHANGED <<program, stdin, inputs, sensor, alarms, next_id, trig, pulses, output,
                   fgv, fsmv, mainv, hist>>

\* The operator types a line.  It reaches the program when the loop is next in
\* getchar_timeout_us, so it is taken to arrive there.
TypeLine ==
    /\ inputs < MaxInputs
    /\ stdin = <<>>
    /\ pc \in {"getchar", "getchar_wait", "m_getchar"}
    /\ \E l \in Lines : stdin' = l /\ hist' = [hist EXCEPT !.typed = l]
    /\ inputs' = inputs + 1
    /\ UNCHANGED <<program, now, sensor, alarms, next_id, trig, pulses, output,
                   fgv, fsmv, mainv>>

---------------------------------------------------------------------------
(* History of the current measurement cycle.  A cycle starts when the      *)
(* foreground has marked a measurement as pending (part_000 line 137,      *)
(* main.c lines 136-138) and is numbered by the trigger pulse it belongs   *)
(* to.  It is in flight until the state returns to IDLE (part_000 line     *)
(* 157) or its line is printed (main.c lines 155-168).                     *)

HistInit ==
    [ cycle     |-> 0,         \* number of the cycle in flight or last finished
      inflight  |-> FALSE,     \* started and not yet over
      first     |-> "none",    \* handler that acted first in it: "fall" | "timeout"
      exits     |-> 0,         \* times the state left WAITING_FOR_ECHO in it
      start_cyc |-> 0,         \* cycle in which the start timestamp was recorded
      end_cyc   |-> 0,         \* cycle in which the end timestamp was recorded
      by_echo   |-> {},        \* cycles completed by the falling-edge handler
      fired     |-> {},        \* cycles whose alarm fired
      arms      |-> 0,         \* alarms armed so far
      edges     |-> 0,         \* echo-pin interrupts handled in it
      ev        |-> 0,         \* event mask of the last echo-pin interrupt
      t_begin   |-> 0,         \* instant at which it started
      t_arm     |-> 0,         \* instant at which the last alarm was armed
      typed     |-> <<>>,      \* the console line typed last
      t_done    |-> 0,         \* instant at which the state last left WAITING_FOR_ECHO
      writers   |-> {},
      t_cons    |-> 0,         \* instant at which the last outcome was printed
      kept      |-> FALSE ]    \* the run flag was set then and has stayed set since       \* <<field, context>>: the context has written the field

\* The fields of the shared measurement context: the measurement state
\* (current_state; in main.c the three flags), the two timestamps and the
\* alarm id.  The contexts: the foreground loop "fg", the callbacks "irq".
Fields == {"state", "start", "end", "alarm_id"}
Wrote(context, fields) == hist.writers \cup { <<f, context>> : f \in fields }

HistStart(c) ==
    [hist EXCEPT !.cycle = c, !.inflight = TRUE, !.first = "none", !.exits = 0,
                 !.edges = 0, !.t_begin = now, !.writers = Wrote("fg", {"state"})]

---------------------------------------------------------------------------
(* part_000 (= part_001): interrupt handlers *)

\* timeout_callback without its test of the state
timeout_callback_unguarded ==
    /\ current_state' = STATE_MEASUREMENT_ERROR
    /\ UNCHANGED <<echo_start_time, echo_end_time, measurement_alarm_id, system_running>>

\* timeout_callback, lines 38-43
timeout_callback ==
    /\ current_state' = IF current_state = STATE_WAITING_FOR_ECHO
                        THEN STATE_MEASUREMENT_ERROR ELSE current_state
    /\ UNCHANGED <<echo_start_time, echo_end_time, measurement_alarm_id, system_running>>

\* echo_callback completing the measurement on any falling edge, whatever the state
echo_callback_any_state(gpio, events, t) ==
    IF gpio = ECHO_PIN
    THEN /\ echo_start_time' = IF HasRise(events) THEN t ELSE echo_start_time
         /\ echo_end_time' = IF HasFall(events) THEN t ELSE echo_end_time
         /\ IF HasFall(events)
            THEN /\ alarms' = cancel_alarm(alarms, measurement_alarm_id)
                 /\ current_state' = STATE_MEASUREMENT_COMPLETE
            ELSE UNCHANGED <<alarms, current_state>>
         /\ UNCHANGED <<measurement_alarm_id, system_running>>
    ELSE UNCHANGED <<alarms, fsmv>>

\* echo_callback completing the measurement in every state but IDLE
echo_callback_not_idle(gpio, events, t) ==
    IF gpio = ECHO_PIN
    THEN /\ echo_start_time' = IF HasRise(events) THEN t ELSE echo_start_time
         /\ echo_end_time' = IF HasFall(events) THEN t ELSE echo_end_time
         /\ IF HasFall(events) /\ current_state # STATE_IDLE
            THEN /\ alarms' = cancel_alarm(alarms, measurement_alarm_id)
                 /\ current_state' = STATE_MEASUREMENT_COMPLETE
            ELSE UNCHANGED <<alarms, current_state>>
         /\ UNCHANGED <<measurement_alarm_id, system_running>>
    ELSE UNCHANGED <<alarms, fsmv>>

\* echo_callback, lines 46-59; t is get_absolute_time() inside the handler.
\* Its cancel_alarm acts on pool, the alarm pool at the time of the call.
echo_callback(gpio, events, t) ==
    IF gpio = ECHO_PIN
    THEN /\ echo_start_time' = IF HasRise(events) THEN t ELSE echo_start_time
         /\ echo_end_time' = IF HasFall(events) THEN t ELSE echo_end_time
         /\ IF HasFall(events) /\ current_state = STATE_WAITING_FOR_ECHO
            THEN /\ alarms' = cancel_alarm(alarms, measurement_alarm_id)
                 /\ current_state' = STATE_MEASUREMENT_COMPLETE
            ELSE UNCHANGED <<alarms, current_state>>
         /\ UNCHANGED <<measurement_alarm_id, system_running>>
    ELSE UNCHANGED <<alarms, fsmv>>

\* What an echo-pin interrupt adds to the history: rise and fall say whether the
\* handler took the event for a rising / falling edge, completed whether it
\* declared the measurement complete, left whether the state left WAITING_FOR_ECHO.
HistEdge(events, rise, fall, rec_end, completed, left) ==
    [hist EXCEPT
       !.writers   = Wrote("irq", (IF rise THEN {"start"} ELSE {})
                                  \cup (IF rec_end THEN {"end"} ELSE {})
                                  \cup (IF completed \/ left THEN {"state"} ELSE {})),
       !.edges     = @ + 1,
       !.ev        = events,
       !.start_cyc = IF rise THEN hist.cycle ELSE @,
       !.end_cyc   = IF rec_end THEN hist.cycle ELSE @,
       !.first     = IF @ = "none" /\ hist.inflight /\ fall THEN "fall" ELSE @,
       !.exits     = IF left THEN @ + 1 ELSE @,
       !.t_done    = IF left THEN now ELSE @,
       !.by_echo   = IF completed THEN @ \cup {hist.cycle} ELSE @ ]

FsmHistEdge(events) ==
    HistEdge(events, HasRise(events), HasFall(events), HasFall(events),
             current_state' = STATE_MEASUREMENT_COMPLETE /\ current_state' # current_state,
             current_state = STATE_WAITING_FOR_ECHO /\ current_state' # current_state)

\* The sensor's answer: the echo line rises, and later falls.
FsmEchoIrq ==
    /\ program = "fsm"
    /\ EdgeDue
    /\ LET events == IF sensor.phase = "rise" THEN GPIO_IRQ_EDGE_RISE ELSE GPIO_IRQ_EDGE_FALL
       IN  /\ echo_callback(ECHO_PIN, events, now)
           /\ hist' = FsmHistEdge(events)
    /\ sensor' = IF sensor.phase = "rise"
                 THEN [sensor EXCEPT !.phase = "fall", !.due = now + sensor.width]
                 ELSE Quiet
    /\ UNCHANGED <<program, now, stdin, inputs, next_id, trig, pulses, output, fgv, mainv>>

\* A stray echo-pin interrupt (noise, a reflection of an older pulse, both
\* edges latched in one event mask), at any instant.
FsmStrayIrq ==
    /\ program = "fsm"
    /\ inputs < MaxInputs
    /\ \E events \in EventMasks :
          /\ echo_callback(ECHO_PIN, events, now)
          /\ hist' = FsmHistEdge(events)
    /\ inputs' = inputs + 1
    /\ UNCHANGED <<program, now, stdin, sensor, next_id, trig, pulses, output, fgv, mainv>>

\* An alarm of the pool reaches its target: the timer interrupt runs its callback.
FsmAlarmIrq ==
    /\ program = "fsm"
    /\ \E a \in DueAlarms :
          /\ alarms' = alarms \ {a}
          /\ timeout_callback
          /\ hist' = [hist EXCEPT
                 !.first = IF @ = "none" /\ hist.inflight THEN "timeout" ELSE @,
                 !.exits = IF current_state = STATE_WAITING_FOR_ECHO
                              /\ current_state' # current_state THEN @ + 1 ELSE @,
                 !.t_done = IF current_state = STATE_WAITING_FOR_ECHO
                               /\ current_state' # current_state THEN now ELSE @,
                 !.writers = IF current_state = STATE_WAITING_FOR_ECHO
                             THEN Wrote("irq", {"state"}) ELSE @,
                 !.fired = @ \cup {a.cycle} ]
    /\ UNCHANGED <<program, now, stdin, inputs, sensor, next_id, trig, pulses, output,
                   fgv, mainv>>

---------------------------------------------------------------------------
(* part_000 (= part_001): the foreground loop of main(), lines 102-165 *)

TmpInit == [id |-> 0, start |-> Never, end |-> Never]

IsEol(c) == c = CR \/ c = LF
START_CMD == <<"s","t","a","r","t">>
STOP_CMD  == <<"s","t","o","p">>

\* the command compared over the characters typed so far only (strncmp)
IsPrefix(buf, word) == Len(buf) <= Len(word) /\ buf = SubSeq(word, 1, Len(buf))
ProcessChar_prefix(c, buf, idx, run) ==
    IF IsEol(c)
    THEN IF idx = 0
         THEN <<buf, idx, run, "getchar">>
         ELSE <<<<>>, 0,
                IF IsPrefix(buf, START_CMD) THEN TRUE
                ELSE IF IsPrefix(buf, STOP_CMD) THEN FALSE ELSE run,
                "check">>
    ELSE IF idx < CMD_BUFFER_SIZE - 1
         THEN <<Append(buf, c), idx + 1, run, "check">>
         ELSE <<buf, idx, run, "check">>

\* lines 106-132: the character c just read; run is the run flag.
\* The result is the new <<buffer, index, run flag, next position>>.
\* lines 111-131 with the bound of line 129 one too large
ProcessChar_full_buffer(c, buf, idx, run) ==
    IF IsEol(c)
    THEN IF idx = 0
         THEN <<buf, idx, run, "getchar">>
         ELSE <<<<>>, 0,
                IF buf = START_CMD THEN TRUE
                ELSE IF buf = STOP_CMD THEN FALSE ELSE run,
                "check">>
    ELSE IF idx < CMD_BUFFER_SIZE
         THEN <<Append(buf, c), idx + 1, run, "check">>
         ELSE <<buf, idx, run, "check">>

ProcessChar(c, buf, idx, run) ==
    IF IsEol(c)
    THEN IF idx = 0
         THEN <<buf, idx, run, "getchar">>          \* continue
         ELSE <<<<>>, 0,
                IF buf = START_CMD THEN TRUE
                ELSE IF buf = STOP_CMD THEN FALSE ELSE run,
                "check">>
    ELSE IF idx < CMD_BUFFER_SIZE - 1
         THEN <<Append(buf, c), idx + 1, run, "check">>
         ELSE <<buf, idx, run, "check">>

\* line 104, a character is there: getchar_timeout_us returns it at once
FsmGetChar ==
    /\ program = "fsm" /\ pc \in {"getchar", "getchar_wait"} /\ FgReady
    /\ stdin # <<>>
    /\ LET r == ProcessChar(Head(stdin), cmd_buffer, cmd_index, system_running)
       IN  /\ cmd_buffer' = r[1]
           /\ cmd_index' = r[2]
           /\ system_running' = r[3]
           /\ pc' = r[4]
           /\ hist' = [hist EXCEPT !.kept = @ /\ r[3]]
    /\ stdin' = Tail(stdin)
    /\ UNCHANGED <<program, now, inputs, sensor, alarms, next_id, trig, pulses, output,
                   wake, tmp, current_state, echo_start_time, echo_end_time,
                   measurement_alarm_id, mainv>>

\* line 104, nothing typed: getchar_timeout_us waits up to 1000 us
FsmGetCharWait ==
    /\ program = "fsm" /\ pc = "getchar" /\ FgReady
    /\ stdin = <<>>
    /\ pc' = "getchar_wait"
    /\ wake' = now + GETCHAR_TIMEOUT_US
    /\ UNCHANGED <<program, envv, cmd_index, cmd_buffer, tmp, fsmv, mainv, hist>>

\* line 104 returns PICO_ERROR_TIMEOUT
FsmGetCharTimeout ==
    /\ program = "fsm" /\ pc = "getchar_wait" /\ FgReady
    /\ stdin = <<>>
    /\ pc' = "check"
    /\ UNCHANGED <<program, envv, wake, cmd_index, cmd_buffer, tmp, fsmv, mainv, hist>>

\* line 135 testing the run flag only
FsmCheckStart_any_state ==
    /\ program = "fsm" /\ pc = "check" /\ FgReady
    /\ IF system_running
       THEN pulses < MaxCycles /\ pc' = "pulse_hi"
       ELSE pc' = "chk_complete"
    /\ UNCHANGED <<program, envv, wake, cmd_index, cmd_buffer, tmp, fsmv, mainv, hist>>

\* line 135: if (system_running && current_state == STATE_IDLE)
FsmCheckStart ==
    /\ program = "fsm" /\ pc = "check" /\ FgReady
    /\ IF system_running /\ current_state = STATE_IDLE
       THEN pulses < MaxCycles /\ pc' = "pulse_hi"
       ELSE pc' = "chk_complete"
    /\ UNCHANGED <<program, envv, wake, cmd_index, cmd_buffer, tmp, fsmv, mainv, hist>>

\* send_trigger_pulse, lines 62-64: gpio_put(TRIGGER_PIN, 1); sleep_us(10)
FsmPulseHigh ==
    /\ program = "fsm" /\ pc = "pulse_hi" /\ FgReady
    /\ trig' = 1
    /\ pulses' = pulses + 1
    /\ pc' = "pulse_sleep"
    /\ wake' = now + PULSE_US
    /\ UNCHANGED <<program, now, stdin, inputs, sensor, alarms, next_id, output,
                   cmd_index, cmd_buffer, tmp, fsmv, mainv, hist>>

\* send_trigger_pulse, line 65: gpio_put(TRIGGER_PIN, 0)
FsmPulseLow ==
    /\ program = "fsm" /\ pc = "pulse_sleep" /\ FgReady
    /\ trig' = 0
    /\ pc' = "set_wait"
    /\ \E answer \in Answers : sensor' = Heard(answer, now)
    /\ UNCHANGED <<program, now, stdin, inputs, alarms, next_id, pulses, output,
                   wake, cmd_index, cmd_buffer, tmp, fsmv, mainv, hist>>

\* line 137: current_state = STATE_WAITING_FOR_ECHO
FsmSetWaiting ==
    /\ program = "fsm" /\ pc = "set_wait" /\ FgReady
    /\ current_state' = STATE_WAITING_FOR_ECHO
    /\ pc' = "arm"
    /\ hist' = HistStart(pulses)
    /\ UNCHANGED <<program, envv, wake, cmd_index, cmd_buffer, tmp, echo_start_time,
                   echo_end_time, measurement_alarm_id, system_running, mainv>>

\* line 139, the call: add_alarm_in_us(MEASUREMENT_TIMEOUT_US, timeout_callback, NULL, true)
FsmArm ==
    /\ program = "fsm" /\ pc = "arm" /\ FgReady
    /\ alarms' = add_alarm(alarms, next_id, now, MEASUREMENT_TIMEOUT_US)
    /\ tmp' = [tmp EXCEPT !.id = next_id]
    /\ next_id' = next_id + 1
    /\ pc' = "store_id"
    /\ hist' = [hist EXCEPT !.arms = @ + 1, !.t_arm = now]
    /\ UNCHANGED <<program, now, stdin, inputs, sensor, trig, pulses, output,
                   wake, cmd_index, cmd_buffer, fsmv, mainv>>

\* line 139, the assignment: measurement_alarm_id = <the id returned>
FsmStoreId ==
    /\ program = "fsm" /\ pc = "store_id" /\ FgReady
    /\ measurement_alarm_id' = tmp.id
    /\ pc' = "chk_complete"
    /\ hist' = [hist EXCEPT !.writers = Wrote("fg", {"alarm_id"})]
    /\ UNCHANGED <<program, envv, wake, cmd_index, cmd_buffer, tmp, current_state,
                   echo_start_time, echo_end_time, system_running, mainv>>

\* line 143, left operand: current_state == STATE_MEASUREMENT_COMPLETE
FsmCheckComplete ==
    /\ program = "fsm" /\ pc = "chk_complete" /\ FgReady
    /\ pc' = IF current_state = STATE_MEASUREMENT_COMPLETE THEN "branch" ELSE "chk_error"
    /\ UNCHANGED <<program, envv, wake, cmd_index, cmd_buffer, tmp, fsmv, mainv, hist>>

\* line 143 with STATE_MEASUREMENT_COMPLETE tested in both operands
FsmCheckError_complete_twice ==
    /\ program = "fsm" /\ pc = "chk_error" /\ FgReady
    /\ IF current_state = STATE_MEASUREMENT_COMPLETE
       THEN pc' = "branch" /\ wake' = wake
       ELSE pc' = "sleep10" /\ wake' = now + LOOP_SLEEP_US
    /\ UNCHANGED <<program, envv, cmd_index, cmd_buffer, tmp, fsmv, mainv, hist>>

\* line 143, right operand: current_state == STATE_MEASUREMENT_ERROR;
\* when neither holds the iteration ends in sleep_ms(10), line 164
FsmCheckError ==
    /\ program = "fsm" /\ pc = "chk_error" /\ FgReady
    /\ IF current_state = STATE_MEASUREMENT_ERROR
       THEN pc' = "branch" /\ wake' = wake
       ELSE pc' = "sleep10" /\ wake' = now + LOOP_SLEEP_US
    /\ UNCHANGED <<program, envv, cmd_index, cmd_buffer, tmp, fsmv, mainv, hist>>

\* line 150: if (current_state == STATE_MEASUREMENT_COMPLETE)
FsmBranch ==
    /\ program = "fsm" /\ pc = "branch" /\ FgReady
    /\ pc' = IF current_state = STATE_MEASUREMENT_COMPLETE THEN "read" ELSE "print_fail"
    /\ tmp' = [tmp EXCEPT !.start = Never, !.end = Never]
    /\ UNCHANGED <<program, envv, wake, cmd_index, cmd_buffer, fsmv, mainv, hist>>

\* line 151: the two volatile reads of absolute_time_diff_us(echo_start_time,
\* echo_end_time); C leaves the order of argument evaluation open
FsmReadStamp ==
    /\ program = "fsm" /\ pc = "read" /\ FgReady
    /\ \/ tmp.start = Never /\ tmp' = [tmp EXCEPT !.start = echo_start_time]
       \/ tmp.end = Never /\ tmp' = [tmp EXCEPT !.end = echo_end_time]
    /\ pc' = IF tmp'.start # Never /\ tmp'.end # Never THEN "print_cm" ELSE "read"
    /\ UNCHANGED <<program, envv, wake, cmd_index, cmd_buffer, fsmv, mainv, hist>>

\* the line printed for a distance: kind "cm" and the number as printf shows it
CmLine(cyc, t_start, t_end, shown) ==
    [cycle |-> cyc, kind |-> "cm", shown |-> shown, start |-> t_start, end |-> t_end]
\* the line printed for a failure
TextLine(cyc, kind) ==
    [cycle |-> cyc, kind |-> kind, shown |-> 0, start |-> Never, end |-> Never]

\* lines 151-153: distance = (duration_us * 0.0343f) / 2.0f; printf("%.0f cm")
FsmPrintDistance ==
    /\ program = "fsm" /\ pc = "print_cm" /\ FgReady
    /\ LET duration_us == absolute_time_diff_us(tmp.start, tmp.end)
           distance == Distance(duration_us)
       IN  output' = Append(output, CmLine(hist.cycle, tmp.start, tmp.end, Format0(distance)))
    /\ pc' = "reset"
    /\ UNCHANGED <<program, now, stdin, inputs, sensor, alarms, next_id, trig, pulses,
                   wake, cmd_index, cmd_buffer, tmp, fsmv, mainv, hist>>

\* line 155: printf("%s - Falha")
FsmPrintFailure ==
    /\ program = "fsm" /\ pc = "print_fail" /\ FgReady
    /\ output' = Append(output, TextLine(hist.cycle, "Falha"))
    /\ pc' = "reset"
    /\ UNCHANGED <<program, now, stdin, inputs, sensor, alarms, next_id, trig, pulses,
                   wake, cmd_index, cmd_buffer, tmp, fsmv, mainv, hist>>

\* line 157: current_state = STATE_IDLE
FsmReset ==
    /\ program = "fsm" /\ pc = "reset" /\ FgReady
    /\ current_state' = STATE_IDLE
    /\ pc' = "chk_running"
    /\ hist' = [hist EXCEPT !.inflight = FALSE, !.writers = Wrote("fg", {"state"}),
                             !.t_cons = now, !.kept = system_running]
    /\ UNCHANGED <<program, envv, wake, cmd_index, cmd_buffer, tmp, echo_start_time,
                   echo_end_time, measurement_alarm_id, system_running, mainv>>

\* lines 160-162 without the sleep_ms(1000)
FsmCheckRunning_no_interval ==
    /\ program = "fsm" /\ pc = "chk_running" /\ FgReady
    /\ pc' = "sleep10" /\ wake' = now + LOOP_SLEEP_US
    /\ UNCHANGED <<program, envv, cmd_index, cmd_buffer, tmp, fsmv, mainv, hist>>

\* lines 160-162 with the interval kept only after a printed distance
FsmCheckRunning_skip_after_error ==
    /\ program = "fsm" /\ pc = "chk_running" /\ FgReady
    /\ IF system_running /\ output # <<>> /\ output[Len(output)].kind = "cm"
       THEN pc' = "sleep1000" /\ wake' = now + INTERVAL_SLEEP_US
       ELSE pc' = "sleep10" /\ wake' = now + LOOP_SLEEP_US
    /\ UNCHANGED <<program, envv, cmd_index, cmd_buffer, tmp, fsmv, mainv, hist>>

\* lines 160-162: if (system_running) sleep_ms(1000)
FsmCheckRunning ==
    /\ program = "fsm" /\ pc = "chk_running" /\ FgReady
    /\ IF system_running
       THEN pc' = "sleep1000" /\ wake' = now + INTERVAL_SLEEP_US
       ELSE pc' = "sleep10" /\ wake' = now + LOOP_SLEEP_US
    /\ UNCHANGED <<program, envv, cmd_index, cmd_buffer, tmp, fsmv, mainv, hist>>

\* line 161 returns; line 164: sleep_ms(10)
FsmIntervalOver ==
    /\ program = "fsm" /\ pc = "sleep1000" /\ FgReady
    /\ pc' = "sleep10"
    /\ wake' = now + LOOP_SLEEP_US
    /\ UNCHANGED <<program, envv, cmd_index, cmd_buffer, tmp, fsmv, mainv, hist>>

\* line 164 returns: next iteration of while (true)
FsmLoop ==
    /\ program = "fsm" /\ pc = "sleep10" /\ FgReady
    /\ pc' = "getchar"
    /\ UNCHANGED <<program, envv, wake, cmd_index, cmd_buffer, tmp, fsmv, mainv, hist>>

FsmForeground ==
    \/ FsmGetChar \/ FsmGetCharWait \/ FsmGetCharTimeout
    \/ FsmCheckStart \/ FsmPulseHigh \/ FsmPulseLow \/ FsmSetWaiting \/ FsmArm \/ FsmStoreId
    \/ FsmCheckComplete \/ FsmCheckError \/ FsmBranch \/ FsmReadStamp
    \/ FsmPrintDistance \/ FsmPrintFailure \/ FsmReset \/ FsmCheckRunning
    \/ FsmIntervalOver \/ FsmLoop

---------------------------------------------------------------------------
(* main.c: interrupt handlers *)

\* alarm_callback, lines 36-41
alarm_callback ==
    sensor_state' = [sensor_state EXCEPT !.timer_fired = TRUE]

\* trigger_callback, lines 43-61; t is get_absolute_time() inside the handler
trigger_callback(gpio, events, t) ==
    LET s1 == IF gpio = MAIN_ECHO_PIN /\ events = GPIO_IRQ_EDGE_RISE
              THEN [sensor_state EXCEPT !.t_subida = t] ELSE sensor_state
        fall == gpio = MAIN_ECHO_PIN /\ events = GPIO_IRQ_EDGE_FALL /\ s1.flag_f_trigger # 0
    IN  /\ sensor_state' =
              IF fall
              THEN [s1 EXCEPT !.t_descida = t, !.flag_f_trigger = 0,
                              !.timer_fired = FALSE, !.action_completed = TRUE]
              ELSE s1
        /\ alarms' = IF fall /\ ~s1.timer_fired /\ s1.alarm_id # 0
                     THEN cancel_alarm(alarms, s1.alarm_id) ELSE alarms

MainHistEdge(events) ==
    HistEdge(events, events = GPIO_IRQ_EDGE_RISE, events = GPIO_IRQ_EDGE_FALL,
             events = GPIO_IRQ_EDGE_FALL /\ sensor_state.flag_f_trigger # 0,
             hist.inflight /\ sensor_state'.action_completed /\ ~sensor_state.action_completed,
             FALSE)

\* The sensor's answer: the echo line rises, and later falls.
MainEchoIrq ==
    /\ program = "main"
    /\ EdgeDue
    /\ LET events == IF sensor.phase = "rise" THEN GPIO_IRQ_EDGE_RISE ELSE GPIO_IRQ_EDGE_FALL
       IN  /\ trigger_callback(MAIN_ECHO_PIN, events, now)
           /\ hist' = MainHistEdge(events)
    /\ sensor' = IF sensor.phase = "rise"
                 THEN [sensor EXCEPT !.phase = "fall", !.due = now + sensor.width]
                 ELSE Quiet
    /\ UNCHANGED <<program, now, stdin, inputs, next_id, trig, pulses, output, fgv, fsmv,
                   reading_active, last_measurement, measure_start>>

\* A stray echo-pin interrupt, at any instant.
MainStrayIrq ==
    /\ program = "main"
    /\ inputs < MaxInputs
    /\ \E events \in EventMasks :
          /\ trigger_callback(MAIN_ECHO_PIN, events, now)
          /\ hist' = MainHistEdge(events)
    /\ inputs' = inputs + 1
    /\ UNCHANGED <<program, now, stdin, sensor, next_id, trig, pulses, output, fgv, fsmv,
                   reading_active, last_measurement, measure_start>>

\* An alarm of the pool reaches its target: the timer interrupt runs its callback.
MainAlarmIrq ==
    /\ program = "main"
    /\ \E a \in DueAlarms :
          /\ alarms' = alarms \ {a}
          /\ alarm_callback
          /\ hist' = [hist EXCEPT
                 !.first = IF @ = "none" /\ hist.inflight THEN "timeout" ELSE @,
                 !.writers = Wrote("irq", {"state"}),
                 !.fired = @ \cup {a.cycle} ]
    /\ UNCHANGED <<program, now, stdin, inputs, sensor, next_id, trig, pulses, output,
                   fgv, fsmv, reading_active, last_measurement, measure_start>>

---------------------------------------------------------------------------
(* main.c: the foreground loop of main(), lines 97-173 *)

\* lines 100-132: the character c just read, or PICO_ERROR_TIMEOUT.
\* The result is the new <<command, cmd_index, reading_active>>.
MainProcessChar(c, buf, idx, run) ==
    IF c = PICO_ERROR_TIMEOUT THEN <<buf, idx, run>>
    ELSE IF IsEol(c)
    THEN IF idx > 0
         THEN <<<<>>, 0,
                IF buf = START_CMD THEN TRUE
                ELSE IF buf = STOP_CMD THEN FALSE ELSE run>>
         ELSE <<buf, idx, run>>
    ELSE IF idx < COMMAND_SIZE - 1
         THEN <<Append(buf, c), idx + 1, run>>
         ELSE <<buf, idx, run>>

\* line 99: getchar_timeout_us(0), and the command handling of lines 100-132
MainGetChar ==
    /\ program = "main" /\ pc = "m_getchar" /\ FgReady
    /\ LET c == IF stdin # <<>> THEN Head(stdin) ELSE PICO_ERROR_TIMEOUT
           r == MainProcessChar(c, cmd_buffer, cmd_index, reading_active)
       IN  /\ cmd_buffer' = r[1]
           /\ cmd_index' = r[2]
           /\ reading_active' = r[3]
           /\ hist' = [hist EXCEPT !.kept = @ /\ r[3]]
    /\ stdin' = IF stdin # <<>> THEN Tail(stdin) ELSE stdin
    /\ pc' = "m_check"
    /\ wake' = now
    /\ UNCHANGED <<program, now, inputs, sensor, alarms, next_id, trig, pulses, output,
                   tmp, fsmv, sensor_state, last_measurement, measure_start>>

\* line 134: if (reading_active && absolute_time_diff_us(last_measurement, now) >= 1 s);
\* otherwise line 172: sleep_ms(10)
MainCheck ==
    /\ program = "main" /\ pc = "m_check" /\ FgReady
    /\ IF reading_active
          /\ absolute_time_diff_us(last_measurement, now) >= MAIN_INTERVAL_US
       THEN pulses < MaxCycles /\ pc' = "m_set_flag" /\ wake' = wake
       ELSE pc' = "m_getchar" /\ wake' = now + LOOP_SLEEP_US
    /\ UNCHANGED <<program, envv, cmd_index, cmd_buffer, tmp, fsmv, mainv, hist>>

\* line 136: sensor_state.flag_f_trigger = true
MainSetFlag ==
    /\ program = "main" /\ pc = "m_set_flag" /\ FgReady
    /\ sensor_state' = [sensor_state EXCEPT !.flag_f_trigger = 1]
    /\ pc' = "m_clr_fired"
    /\ hist' = [hist EXCEPT !.writers = Wrote("fg", {"state"})]
    /\ UNCHANGED <<program, envv, wake, cmd_index, cmd_buffer, tmp, fsmv,
                   reading_active, last_measurement, measure_start>>

\* line 137: sensor_state.timer_fired = false
MainClearFired ==
    /\ program = "main" /\ pc = "m_clr_fired" /\ FgReady
    /\ sensor_state' = [sensor_state EXCEPT !.timer_fired = FALSE]
    /\ pc' = "m_clr_done"
    /\ hist' = [hist EXCEPT !.writers = Wrote("fg", {"state"})]
    /\ UNCHANGED <<program, envv, wake, cmd_index, cmd_buffer, tmp, fsmv,
                   reading_active, last_measurement, measure_start>>

\* line 138: sensor_state.action_completed = false
MainClearDone ==
    /\ program = "main" /\ pc = "m_clr_done" /\ FgReady
    /\ sensor_state' = [sensor_state EXCEPT !.action_completed = FALSE]
    /\ pc' = "m_pulse_hi"
    /\ hist' = HistStart(pulses + 1)
    /\ UNCHANGED <<program, envv, wake, cmd_index, cmd_buffer, tmp, fsmv,
                   reading_active, last_measurement, measure_start>>

\* lines 140-141: gpio_put(TRIG_PIN, 1); sleep_us(10)
MainPulseHigh ==
    /\ program = "main" /\ pc = "m_pulse_hi" /\ FgReady
    /\ trig' = 1
    /\ pulses' = pulses + 1
    /\ pc' = "m_pulse_sleep"
    /\ wake' = now + PULSE_US
    /\ UNCHANGED <<program, now, stdin, inputs, sensor, alarms, next_id, output,
                   cmd_index, cmd_buffer, tmp, fsmv, mainv, hist>>

\* line 142: gpio_put(TRIG_PIN, 0).  The falling edge of TRIG_PIN, enabled in
\* line 84, runs trigger_callback for that pin.
MainPulseLow ==
    /\ program = "main" /\ pc = "m_pulse_sleep" /\ FgReady
    /\ trig' = 0
    /\ trigger_callback(MAIN_TRIG_PIN, GPIO_IRQ_EDGE_FALL, now)
    /\ pc' = "m_arm"
    /\ \E answer \in Answers : sensor' = Heard(answer, now)
    /\ UNCHANGED <<program, now, stdin, inputs, next_id, pulses, output,
                   wake, cmd_index, cmd_buffer, tmp, fsmv,
                   reading_active, last_measurement, measure_start, hist>>

\* line 143, the call: add_alarm_in_ms(500, alarm_callback, &sensor_state, false)
MainArm ==
    /\ program = "main" /\ pc = "m_arm" /\ FgReady
    /\ alarms' = add_alarm(alarms, next_id, now, MAIN_ALARM_US)
    /\ tmp' = [tmp EXCEPT !.id = next_id]
    /\ next_id' = next_id + 1
    /\ pc' = "m_store_id"
    /\ hist' = [hist EXCEPT !.arms = @ + 1, !.t_arm = now]
    /\ UNCHANGED <<program, now, stdin, inputs, sensor, trig, pulses, output,
                   wake, cmd_index, cmd_buffer, fsmv, mainv>>

\* line 143, the assignment: sensor_state.alarm_id = <the id returned>
MainStoreId ==
    /\ program = "main" /\ pc = "m_store_id" /\ FgReady
    /\ sensor_state' = [sensor_state EXCEPT !.alarm_id = tmp.id]
    /\ pc' = "m_measure_start"
    /\ hist' = [hist EXCEPT !.writers = Wrote("fg", {"alarm_id"})]
    /\ UNCHANGED <<program, envv, wake, cmd_index, cmd_buffer, tmp, fsmv,
                   reading_active, last_measurement, measure_start>>

\* line 145: measure_start = get_absolute_time()
MainMeasureStart ==
    /\ program = "main" /\ pc = "m_measure_start" /\ FgReady
    /\ measure_start' = now
    /\ pc' = "m_loop"
    /\ UNCHANGED <<program, envv, wake, cmd_index, cmd_buffer, tmp, fsmv,
                   sensor_state, reading_active, last_measurement, hist>>

\* lines 146-151: the wait loop is left (see LoopDue)
MainLoopExit ==
    /\ program = "main" /\ pc = "m_loop" /\ FgReady
    /\ pc' = "m_cancel"
    /\ UNCHANGED <<program, envv, wake, cmd_index, cmd_buffer, tmp, fsmv, mainv, hist>>

\* line 152: cancel_alarm(sensor_state.alarm_id); line 154: print_datetime()
MainCancel ==
    /\ program = "main" /\ pc = "m_cancel" /\ FgReady
    /\ alarms' = cancel_alarm(alarms, sensor_state.alarm_id)
    /\ pc' = "m_chk_done"
    /\ UNCHANGED <<program, now, stdin, inputs, sensor, next_id, trig, pulses, output,
                   wake, cmd_index, cmd_buffer, tmp, fsmv, mainv, hist>>

\* line 155: if (sensor_state.action_completed)
MainCheckDone ==
    /\ program = "main" /\ pc = "m_chk_done" /\ FgReady
    /\ pc' = IF sensor_state.action_completed THEN "m_read" ELSE "m_chk_fired"
    /\ tmp' = [tmp EXCEPT !.start = Never, !.end = Never]
    /\ UNCHANGED <<program, envv, wake, cmd_index, cmd_buffer, fsmv, mainv, hist>>

\* line 157: the two volatile reads of absolute_time_diff_us(t_subida, t_descida),
\* in either order
MainReadStamp ==
    /\ program = "main" /\ pc = "m_read" /\ FgReady
    /\ \/ tmp.start = Never /\ tmp' = [tmp EXCEPT !.start = sensor_state.t_subida]
       \/ tmp.end = Never /\ tmp' = [tmp EXCEPT !.end = sensor_state.t_descida]
    /\ pc' = IF tmp'.start # Never /\ tmp'.end # Never THEN "m_print_cm" ELSE "m_read"
    /\ UNCHANGED <<program, envv, wake, cmd_index, cmd_buffer, fsmv, mainv, hist>>

\* lines 157-159: distance = (pulse_duration * 0.0343f) / 2.0f; printf("%.2f cm")
MainPrintDistance ==
    /\ program = "main" /\ pc = "m_print_cm" /\ FgReady
    /\ LET pulse_duration == absolute_time_diff_us(tmp.start, tmp.end)
           distance == Distance(pulse_duration)
       IN  output' = Append(output, CmLine(hist.cycle, tmp.start, tmp.end, Format2(distance)))
    /\ pc' = "m_last"
    /\ hist' = [hist EXCEPT !.inflight = FALSE, !.t_cons = now, !.kept = reading_active]
    /\ UNCHANGED <<program, now, stdin, inputs, sensor, alarms, next_id, trig, pulses,
                   wake, cmd_index, cmd_buffer, tmp, fsmv, mainv>>

\* lines 161-168: else if (sensor_state.timer_fired) printf("Falha")
\*                else printf("Leitura nao concluida")
MainCheckFired ==
    /\ program = "main" /\ pc = "m_chk_fired" /\ FgReady
    /\ output' = Append(output, TextLine(hist.cycle,
                        IF sensor_state.timer_fired THEN "Falha" ELSE "Leitura nao concluida"))
    /\ pc' = "m_last"
    /\ hist' = [hist EXCEPT !.inflight = FALSE, !.t_cons = now, !.kept = reading_active]
    /\ UNCHANGED <<program, now, stdin, inputs, sensor, alarms, next_id, trig, pulses,
                   wake, cmd_index, cmd_buffer, tmp, fsmv, mainv>>

\* line 169: last_measurement = get_absolute_time(); line 172: sleep_ms(10)
MainLast ==
    /\ program = "main" /\ pc = "m_last" /\ FgReady
    /\ last_measurement' = now
    /\ pc' = "m_getchar"
    /\ wake' = now + LOOP_SLEEP_US
    /\ UNCHANGED <<program, envv, cmd_index, cmd_buffer, tmp, fsmv,
                   sensor_state, reading_active, measure_start, hist>>

MainForeground ==
    \/ MainGetChar \/ MainCheck \/ MainSetFlag \/ MainClearFired \/ MainClearDone
    \/ MainPulseHigh \/ MainPulseLow \/ MainArm \/ MainStoreId \/ MainMeasureStart
    \/ MainLoopExit \/ MainCancel \/ MainCheckDone \/ MainReadStamp \/ MainPrintDistance
    \/ MainCheckFired \/ MainLast

---------------------------------------------------------------------------
SensorInit ==
    [alarm_id |-> 0, flag_f_trigger |-> 0, timer_fired |-> FALSE,
     action_completed |-> FALSE, t_descida |-> 0, t_subida |-> 0]

Init ==
    /\ program \in {"fsm", "main"}
    /\ now = 0 /\ stdin = <<>> /\ inputs = 0 /\ sensor = Quiet
    /\ alarms = {} /\ next_id = 1 /\ trig = 0 /\ pulses = 0 /\ output = <<>>
    /\ pc = IF program = "fsm" THEN "getchar" ELSE "m_getchar"
    /\ wake = 0 /\ cmd_index = 0 /\ cmd_buffer = <<>> /\ tmp = TmpInit
    /\ current_state = STATE_IDLE
    /\ echo_start_time = 0 /\ echo_end_time = 0
    /\ measurement_alarm_id = 0
    /\ system_running = FALSE
    /\ sensor_state = SensorInit
    /\ reading_active = FALSE
    /\ last_measurement = 0
    /\ measure_start = 0
    /\ hist = HistInit

Next ==
    \/ Tick
    \/ TypeLine
    \/ FsmEchoIrq
    \/ FsmStrayIrq
    \/ FsmAlarmIrq
    \/ FsmForeground
    \/ MainEchoIrq
    \/ MainStrayIrq
    \/ MainAlarmIrq
    \/ MainForeground

Spec == Init /\ [][Next]_vars

\* The processor keeps executing the foreground loop, the clock keeps running
\* and a due interrupt is delivered; the operator and stray edges are free.
LiveSpec ==
    /\ Init /\ [][Next]_vars
    /\ WF_vars(Tick)
    /\ WF_vars(FsmForeground) /\ WF_vars(FsmEchoIrq) /\ WF_vars(FsmAlarmIrq)
    /\ WF_vars(MainForeground) /\ WF_vars(MainEchoIrq) /\ WF_vars(MainAlarmIrq)

---------------------------------------------------------------------------
(* The command boundary on its own: lines 104-132 of part_000 and lines     *)
(* 99-132 of main.c applied to console input of any length, up to and       *)
(* beyond the capacity of the command buffer.                               *)

\* the characters the command buffer holds: one element is kept for the NUL
Capacity == IF program = "fsm" THEN CMD_BUFFER_SIZE - 1 ELSE COMMAND_SIZE - 1

\* n characters that belong to no command
Fill(n) == [i \in 1..n |-> "x"]

\* the lines typed: the commands, an empty line, a short unknown command and
\* lines that reach, fill and exceed the buffer
ConsoleLines ==
    { Append(START_CMD, LF), Append(STOP_CMD, CR), <<LF>>, <<"x", CR>> }
    \cup { Append(Fill(Capacity - 1 + k), LF) : k \in 0..(MaxOverflow + 1) }

\* the operator types a line
ConsoleType ==
    /\ inputs < MaxInputs
    /\ stdin = <<>>
    /\ \E l \in ConsoleLines : stdin' = l /\ hist' = [hist EXCEPT !.typed = l]
    /\ inputs' = inputs + 1
    /\ UNCHANGED <<program, now, sensor, alarms, next_id, trig, pulses, output,
                   fgv, fsmv, mainv>>

\* part_000 lines 104-132 for the next character
ConsoleFsmChar ==
    /\ program = "fsm" /\ stdin # <<>>
    /\ LET r == ProcessChar(Head(stdin), cmd_buffer, cmd_index, system_running)
       IN  /\ cmd_buffer' = r[1]
           /\ cmd_index' = r[2]
           /\ system_running' = r[3]
    /\ stdin' = Tail(stdin)
    /\ UNCHANGED <<program, now, inputs, sensor, alarms, next_id, trig, pulses, output,
                   pc, wake, tmp, current_state, echo_start_time, echo_end_time,
                   measurement_alarm_id, mainv, hist>>

\* main.c lines 99-132 for the next character
ConsoleMainChar ==
    /\ program = "main" /\ stdin # <<>>
    /\ LET r == MainProcessChar(Head(stdin), cmd_buffer, cmd_index, reading_active)
       IN  /\ cmd_buffer' = r[1]
           /\ cmd_index' = r[2]
           /\ reading_active' = r[3]
    /\ stdin' = Tail(stdin)
    /\ UNCHANGED <<program, now, inputs, sensor, alarms, next_id, trig, pulses, output,
                   pc, wake, tmp, fsmv, sensor_state, last_measurement, measure_start,
                   hist>>

ConsoleNext == ConsoleType \/ ConsoleFsmChar \/ ConsoleMainChar

ConsoleSpec == Init /\ [][ConsoleNext]_vars

---------------------------------------------------------------------------
(* Properties *)

\* the report line a step has just printed
Printed == output' # output
LastLine == output'[Len(output')]

\* C1: in every trigger cycle the state leaves WAITING_FOR_ECHO at most once:
\* from MEASUREMENT_COMPLETE the only other state entered is IDLE (the timeout
\* callback never turns it into ERROR), from MEASUREMENT_ERROR the only other
\* state entered is IDLE (a falling edge never turns it into COMPLETE), and the
\* two callbacks together take the state out of WAITING_FOR_ECHO at most once
\* per cycle, whatever their interleaving.
C1_LeavesWaitingOnce ==
    [][ /\ current_state = STATE_MEASUREMENT_COMPLETE
            => current_state' \in {STATE_MEASUREMENT_COMPLETE, STATE_IDLE}
        /\ current_state = STATE_MEASUREMENT_ERROR
            => current_state' \in {STATE_MEASUREMENT_ERROR, STATE_IDLE}
        /\ hist'.exits <= 1 ]_vars

\* both handlers have acted in one cycle: the alarm fired first, a falling edge
\* was handled after it, and the state is still MEASUREMENT_ERROR
C1_Witness ==
    /\ program = "fsm" /\ hist.inflight
    /\ hist.first = "timeout" /\ hist.end_cyc = hist.cycle
    /\ current_state = STATE_MEASUREMENT_ERROR

\* C2: within a cycle the handler that acts first decides the report: if a
\* falling edge is handled before the alarm fires the line printed is a
\* distance; if the alarm fires first the line printed is the failure marker,
\* also when a falling edge is handled after the alarm fired and before the
\* foreground loop reads the outcome.
C2_FirstEventDecides ==
    [][ Printed =>
          /\ hist.first = "fall" => LastLine.kind = "cm"
          /\ hist.first = "timeout" => LastLine.kind = "Falha" ]_vars

\* C3: a trigger pulse is emitted only when the run flag is set, the state is
\* IDLE and no measurement is in flight; an alarm is armed only as the one
\* alarm of the pulse just emitted (never a second one for a pulse, never
\* without a pulse), so at most one measurement is outstanding.
C3_SingleFlight ==
    [][ program = "fsm" =>
          /\ pulses' # pulses =>
                system_running /\ current_state = STATE_IDLE /\ ~hist.inflight
          /\ hist'.arms # hist.arms =>
                pulses' = pulses /\ hist'.arms = pulses /\ hist.inflight ]_vars

\* line 135 has just been passed without a pulse: the run flag is set, a
\* measurement is outstanding (its alarm was armed earlier) and the state is
\* WAITING_FOR_ECHO
C3_Witness ==
    /\ program = "fsm" /\ pc = "chk_complete"
    /\ system_running /\ current_state = STATE_WAITING_FOR_ECHO
    /\ \E a \in alarms : a.target < now + MEASUREMENT_TIMEOUT_US

\* a cycle in which no echo-pin interrupt was handled, its alarm armed, and
\* the timeout budget over
SilentAndDue ==
    /\ hist.inflight /\ hist.edges = 0 /\ hist.arms = hist.cycle
    /\ ~IrqPending
    /\ now >= hist.t_arm + MEASUREMENT_TIMEOUT_US

\* C4: in a cycle without any echo edge the alarm fires once 30000 us have
\* gone by since it was armed (not before, and it has fired by then), the
\* cycle then is in its error outcome, and the line printed for the cycle is
\* the failure marker.
C4_SilentCycleFails ==
    [][ /\ SilentAndDue' => hist'.cycle \in hist'.fired
        /\ hist'.fired # hist.fired => now >= hist.t_arm + MEASUREMENT_TIMEOUT_US
        /\ (program = "fsm" /\ hist'.inflight /\ hist'.edges = 0
               /\ hist'.cycle \in hist'.fired)
            => current_state' = STATE_MEASUREMENT_ERROR
        /\ Printed /\ hist.edges = 0 => LastLine.kind = "Falha" ]_vars

\* C5: every cycle gets exactly one report line: the i-th line belongs to the
\* i-th cycle, a finished cycle has its line, the line is a distance when the
\* falling-edge handler completed the cycle and the failure marker otherwise,
\* and no other kind of line is printed.
C5_OneLinePerCycle ==
    /\ \A i \in 1..Len(output) :
          /\ output[i].cycle = i
          /\ output[i].kind \in {"cm", "Falha"}
          /\ output[i].kind = "cm" <=> i \in hist.by_echo
    /\ Len(output) \in (IF hist.inflight THEN {hist.cycle - 1, hist.cycle} ELSE {hist.cycle})

\* C6: the start of a cycle clears the timestamps, so no timestamp recorded
\* before the cycle began reaches its result: the start and the end timestamp
\* from which a cycle's distance is computed were each recorded after the
\* cycle began (or are the cleared value 0, never an older recording).
C6_NoStaleTimestamps ==
    [][ Printed /\ LastLine.kind = "cm" =>
          /\ LastLine.start >= hist.t_begin \/ LastLine.start = 0
          /\ LastLine.end >= hist.t_begin \/ LastLine.end = 0 ]_vars

\* C7: at most one alarm is armed at any time, and no alarm fires for a cycle
\* that the falling-edge handler has completed, wherever the handler
\* interrupted the foreground loop.
C7_TimeoutCancelled ==
    [][ /\ Cardinality(alarms') <= 1
        /\ \A c \in hist'.fired \ hist.fired : c \notin hist.by_echo ]_vars

\* the words of a typed line, without its end-of-line character
Body(l) == IF l = <<>> THEN <<>> ELSE SubSeq(l, 1, Len(l) - 1)
\* this step reads the end-of-line character of the line typed last
LineCompleted ==
    /\ pc \in {"getchar", "getchar_wait", "m_getchar"}
    /\ Len(stdin) = 1 /\ stdin' = <<>>
\* the run flag of the program running
RunFlag == IF program = "fsm" THEN system_running ELSE reading_active

\* C8: the run flag changes only in the step that completes a console line
\* equal to "start" (which sets it) or "stop" (which clears it); any other
\* line, an empty line, a character of a line not yet complete, the edge
\* handler, the alarm callback and the measurement steps leave it as it is.
C8_RunFlagByCommandOnly ==
    [][ IF LineCompleted /\ Body(hist.typed) = START_CMD THEN RunFlag' = TRUE
        ELSE IF LineCompleted /\ Body(hist.typed) = STOP_CMD THEN RunFlag' = FALSE
        ELSE RunFlag' = RunFlag ]_vars

\* the run flag was set by "start", a cycle ran, and a second line that is
\* not a command ("sta" or an empty line) has been read without clearing it
C8_Witness ==
    /\ RunFlag /\ pulses >= 1 /\ inputs = 2 /\ stdin = <<>>
    /\ Body(hist.typed) \notin {START_CMD, STOP_CMD}

\* the unit of the last digit printed, as a number of 1/20000 cm
ShownUnit == IF program = "fsm" THEN DIST_DEN ELSE DIST_DEN \div 100

\* C9: the distance printed for timestamps t0 and t0 + D is D * 0.0343 / 2 cm
\* to the last digit shown (whole centimetres in part_000, hundredths in
\* main.c): D = 600 prints 10.29 (10 in whole centimetres), D > 0 prints a
\* value >= 0, and large or negative values are printed as computed, not
\* clamped.
C9_DistanceFormula ==
    \A i \in 1..Len(output) :
       output[i].kind = "cm" =>
          LET D == output[i].end - output[i].start
              err == output[i].shown * ShownUnit - 343 * D
          IN  /\ err <= ShownUnit \div 2 /\ 0 - err <= ShownUnit \div 2
              /\ D > 0 => output[i].shown >= 0
              /\ D = 600 => output[i].shown = (IF program = "fsm" THEN 10 ELSE 1029)

\* main.c has printed 10.29 cm for an echo 600 us wide
C9_Witness ==
    /\ program = "main"
    /\ \E i \in 1..Len(output) :
          /\ output[i].kind = "cm" /\ output[i].end - output[i].start = 600
          /\ output[i].shown = 1029

\* This step is an echo-pin interrupt.
EchoIrq == hist'.edges = hist.edges + 1
\* the measurement is awaiting its echo
Awaiting ==
    IF program = "fsm" THEN current_state = STATE_WAITING_FOR_ECHO
    ELSE sensor_state.flag_f_trigger # 0
\* the measurement state, the start timestamp and the end timestamp
MeasState ==
    IF program = "fsm" THEN <<current_state>>
    ELSE <<sensor_state.flag_f_trigger, sensor_state.timer_fired, sensor_state.action_completed>>
StartStamp == IF program = "fsm" THEN echo_start_time ELSE sensor_state.t_subida
EndStamp == IF program = "fsm" THEN echo_end_time ELSE sensor_state.t_descida

\* C10: a falling edge handled while no echo is awaited records the end
\* timestamp and changes neither the measurement state nor the set of armed
\* alarms; a rising edge records the start timestamp whatever the state and
\* does not change the measurement state.
C10_EdgesOutsideWaiting ==
    [][ EchoIrq =>
          /\ (HasFall(hist'.ev) /\ ~Awaiting) =>
                EndStamp' = now /\ MeasState' = MeasState /\ alarms' = alarms
          /\ HasRise(hist'.ev) => StartStamp' = now
          /\ hist'.ev = GPIO_IRQ_EDGE_RISE => MeasState' = MeasState ]_vars

\* This step is the alarm interrupt.
AlarmIrq == hist'.fired # hist.fired
\* main.c: the foreground waits in lines 146-151 and no outcome is set yet
OutcomePending ==
    pc = "m_loop" /\ ~sensor_state.action_completed /\ ~sensor_state.timer_fired

\* C11: the alarm callback sets the error outcome exactly when a measurement
\* is awaiting its echo at that moment: in part_000 it writes
\* MEASUREMENT_ERROR if and only if the state is WAITING_FOR_ECHO and leaves
\* the state as it is otherwise, and never touches the timestamps, the alarm
\* id or the run flag; in main.c it only ever runs while the wait loop has no
\* outcome yet, and then sets timer_fired and nothing else.
C11_TimeoutCallbackFrame ==
    [][ AlarmIrq =>
          IF program = "fsm"
          THEN /\ current_state' = IF current_state = STATE_WAITING_FOR_ECHO
                                   THEN STATE_MEASUREMENT_ERROR ELSE current_state
               /\ UNCHANGED <<echo_start_time, echo_end_time, measurement_alarm_id,
                              system_running, cmd_buffer, cmd_index>>
          ELSE /\ OutcomePending
               /\ sensor_state' = [sensor_state EXCEPT !.timer_fired = TRUE]
               /\ UNCHANGED <<reading_active, last_measurement, measure_start>> ]_vars

\* part_000: the alarm of a cycle that the echo handler had completed has
\* fired while the state was IDLE, and the state still is IDLE
C11_Witness ==
    /\ program = "fsm" /\ current_state = STATE_IDLE /\ pc = "sleep1000"
    /\ hist.cycle \in hist.fired /\ hist.cycle \in hist.by_echo

\* the transitions of the measurement state machine
Transitions ==
    { <<STATE_IDLE, STATE_WAITING_FOR_ECHO>>,
      <<STATE_WAITING_FOR_ECHO, STATE_MEASUREMENT_COMPLETE>>,
      <<STATE_WAITING_FOR_ECHO, STATE_MEASUREMENT_ERROR>>,
      <<STATE_MEASUREMENT_COMPLETE, STATE_IDLE>>,
      <<STATE_MEASUREMENT_ERROR, STATE_IDLE>> }

\* C12: every change of current_state is one of IDLE -> WAITING_FOR_ECHO,
\* WAITING_FOR_ECHO -> COMPLETE, WAITING_FOR_ECHO -> ERROR, COMPLETE -> IDLE,
\* ERROR -> IDLE; so COMPLETE and ERROR are entered from WAITING_FOR_ECHO only,
\* never from IDLE.
C12_OnlyListedTransitions ==
    [][ current_state' # current_state =>
          <<current_state, current_state'>> \in Transitions ]_vars

\* a cycle that ended in COMPLETE and a cycle that ended in ERROR have both
\* been reported and the state is IDLE again: all five transitions were taken
C12_Witness ==
    /\ program = "fsm" /\ current_state = STATE_IDLE /\ Len(output) = 2
    /\ {output[1].kind, output[2].kind} = {"cm", "Falha"}

Terminal == current_state \in {STATE_MEASUREMENT_COMPLETE, STATE_MEASUREMENT_ERROR}

C14_SingleWriter ==
    \A f \in Fields : ~({<<f, "fg">>, <<f, "irq">>} \subseteq hist.writers)

\* C15: while the run flag stays set, the trigger pulse that follows a
\* consumed outcome is emitted no sooner than 1 second after the outcome
\* was consumed (1000000 us), after a failure as after a distance.
C15_IntervalBetweenPulses ==
    [][ pulses' = pulses + 1 /\ hist.cycle >= 1 /\ hist.kept
        => now' >= hist.t_cons + 1000000 ]_vars

C15_Witness ==
    /\ pulses = 2 /\ trig = 1 /\ hist.kept
    /\ output[1].kind = "Falha"
    /\ now >= hist.t_cons + 1000000

\* the alarm with this id is armed: neither fired nor cancelled yet
Armed(id) == \E a \in alarms : a.id = id
\* line 152 of main.c cancels an alarm that is not armed
FgStaleCancel ==
    program = "main" /\ pc = "m_cancel" /\ pc' # pc /\ ~Armed(sensor_state.alarm_id)
\* the edge handler cancels an alarm that is not armed
IrqStaleCancel ==
    /\ EchoIrq
    /\ IF program = "fsm"
       THEN /\ HasFall(hist'.ev) /\ current_state = STATE_WAITING_FOR_ECHO
            /\ ~Armed(measurement_alarm_id)
       ELSE /\ hist'.ev = GPIO_IRQ_EDGE_FALL /\ sensor_state.flag_f_trigger # 0
            /\ ~sensor_state.timer_fired /\ sensor_state.alarm_id # 0
            /\ ~Armed(sensor_state.alarm_id)

FiredNow == hist'.fired \ hist.fired

\* C17: an alarm that fires while a measurement awaits its echo is the alarm
\* armed in that same cycle, and the state becomes the error state only by
\* such an alarm; an alarm left armed by a cycle the edge handler had
\* already completed fires outside every later cycle's wait.
C17_ErrorBySameCycleAlarm ==
    [][ /\ AlarmIrq /\ (IF program = "fsm" THEN Awaiting ELSE hist.inflight)
              => FiredNow = {hist.cycle}
        /\ current_state' = STATE_MEASUREMENT_ERROR /\ current_state # current_state'
              => FiredNow = {hist.cycle}
      ]_vars

\* the alarm of cycle 1 stayed armed although the edge handler had completed
\* the cycle, it has fired since, and cycle 2 is awaiting its echo
C17_Witness ==
    /\ program = "fsm" /\ current_state = STATE_WAITING_FOR_ECHO /\ hist.cycle = 2
    /\ 1 \in hist.fired /\ 1 \in hist.by_echo /\ output[1].kind = "cm"

\* the measurement state of a completed measurement
Completed ==
    IF program = "fsm" THEN <<STATE_MEASUREMENT_COMPLETE>> ELSE <<0, FALSE, TRUE>>

\* C18: an echo-pin callback whose event mask carries both the rising and
\* the falling edge records the start and the end timestamp and, when a
\* measurement awaits its echo, completes it, as a callback for the rise
\* followed by one for the fall does.
C18_BothEdgesInOneCallback ==
    [][ EchoIrq /\ HasRise(hist'.ev) /\ HasFall(hist'.ev)
        => /\ StartStamp' = now /\ EndStamp' = now
           /\ MeasState' = IF Awaiting THEN Completed ELSE MeasState ]_vars

\* a character is taken from the console
CharRead == stdin # <<>> /\ stdin' = Tail(stdin)

\* C19: whatever is typed, the command index stays within 0 .. size - 1 and
\* counts the characters held, so that the NUL written at the end of a line
\* is inside the buffer; a character typed when size - 1 characters are held
\* is dropped; an end of line after at least one character resets the index
\* to 0 and empties the buffer.
C19_CommandIndexInBounds ==
    /\ [](cmd_index \in 0..Capacity /\ Len(cmd_buffer) = cmd_index)
    /\ [][ CharRead =>
              IF IsEol(Head(stdin))
              THEN IF cmd_index > 0
                   THEN cmd_index' = 0 /\ cmd_buffer' = <<>>
                   ELSE UNCHANGED <<cmd_index, cmd_buffer, RunFlag>>
              ELSE IF cmd_index < Capacity
                   THEN cmd_index' = cmd_index + 1
                        /\ cmd_buffer' = Append(cmd_buffer, Head(stdin))
                   ELSE UNCHANGED <<cmd_index, cmd_buffer, RunFlag>> ]_vars

\* the buffer is full, the characters beyond its capacity have been read and
\* the end of the line is next
C19_Witness ==
    /\ cmd_index = Capacity /\ stdin = <<LF>>
    /\ Len(hist.typed) = Capacity + MaxOverflow + 1

=============================================================================
